---- MODULE Spec2Model ----
(***************************************************************************)
(* Model of the DeepSeek language-model facade                             *)
(* (crates/core/src/transformer/model.rs) and of the process-wide shared   *)
(* model accessors (crates/core/src/test_utils.rs).                        *)
(*                                                                         *)
(* Spec        : one generation session driving                            *)
(*               DeepseekLanguageModel::forward and prompt_guard over one   *)
(*               DynamicCache.                                             *)
(* SpecRuntime : threads calling the OnceCell-backed shared accessors.     *)
(* SpecBuild   : construction of the model under a changing environment.   *)
(* SpecConfig  : a caller loading, overriding and normalising an AppConfig  *)
(*               (crates/config/src/config.rs).                            *)
(***************************************************************************)
EXTENDS Integers, Sequences, FiniteSets, TLC

VARIABLES
    cache,      \* the session's DynamicCache
    guards,     \* live PromptCacheGuard handles borrowing `cache`
    session,    \* calls made on `cache` since it was created
    last,       \* the most recent call and what it returned
    cells,      \* OCR_MODEL and LANGUAGE_ASSETS once-cells
    locks,      \* the Mutex inside each cell's value
    threads,    \* each thread's position inside an accessor
    loads,      \* loader executions started so far, per cell
    env,        \* the process environment variable DEEPSEEK_OCR_FLASH_ATTENTION
    lm,         \* the DeepseekLanguageModel built by from_weights, if any
    cfg,        \* the AppConfig the caller holds, if any
    normalised, \* whether normalise has succeeded on `cfg`
    cfgLast     \* the most recent configuration call and how it ended

vars == <<cache, guards, session, last, cells, locks, threads, loads, env, lm,
          cfg, normalised, cfgLast>>

fwdVars == <<cache, guards, session, last>>
rtVars == <<cells, locks, threads, loads>>
lmVars == <<env, lm>>
cfgVars == <<cfg, normalised, cfgLast>>

----------------------------------------------------------------------------
(* Bounds of the model *)

MaxSeq == 2
MaxCacheLen == 3
MaxGuards == 2
NumThreads == 2
MaxLoads == 2

(* Model parameters of the loaded network (cfg / weights) *)
NumLayers == 2
VocabSize == 2
HiddenSize == 1

----------------------------------------------------------------------------
(* Option<T> and Result<T> *)

None == <<>>
Some(x) == <<x>>
IsSome(o) == o # <<>>
Unwrap(o) == o[1]

NoTensor == [dims |-> <<>>, dtype |-> "none", fill |-> 0]

Ok(v) == [ok |-> TRUE, val |-> v, err |-> "none"]
Err(kind) == [ok |-> FALSE, val |-> NoTensor, err |-> kind]

----------------------------------------------------------------------------
(* Tensors.  A tensor is its shape, its element type and the value every   *)
(* element holds.  Position tensors are kept element by element.           *)

Tensor(dims, dtype, fill) == [dims |-> dims, dtype |-> dtype, fill |-> fill]

rank(t) == Len(t.dims)

\* Tensor::to_dtype keeps shape and values, changes the element type
to_dtype(t, dtype) == [t EXCEPT !.dtype = dtype]

\* Tensor::arange(start, end): start, start+1, ..., end-1
arange(start, end) == [i \in 1..(end - start) |-> start + i - 1]

\* reshape((1, seq)).expand((batch, seq)): the same row on every batch row
expand(row, batch) == [b \in 1..batch |-> row]

PosDims(p) == IF Len(p) = 0 THEN <<0, 0>> ELSE <<Len(p), Len(p[1])>>

----------------------------------------------------------------------------
(* Weights held by the model *)

\* token_embedding: row t of the table is the vector named VocabSize + t
token_embedding ==
    [vocab |-> VocabSize, hidden |-> HiddenSize,
     rows |-> [t \in 0..(VocabSize - 1) |-> VocabSize + t]]

EmbeddingRows == {token_embedding.rows[t] : t \in 0..(VocabSize - 1)}

----------------------------------------------------------------------------
(* DynamicCache *)

KvEntry(e, p) == [emb |-> e, pos |-> p]

EmptyCache == [batch |-> 0, kv |-> [l \in 1..NumLayers |-> <<>>]]

\* DynamicCache::seq_len: None for an empty cache, Some(length) otherwise
seq_len(c) == IF Len(c.kv[1]) = 0 THEN None ELSE Some(Len(c.kv[1]))

CacheLen(c) == Len(c.kv[1])

----------------------------------------------------------------------------
(* Embedding Resolver *)

\* gather_embeddings with the rank test widened: a rank-1 id tensor is read
\* as a single batch row
gather_embeddings_rank1(weight, ids) ==
    IF rank(ids) \notin {1, 2} THEN Err("shape")
    ELSE LET batch == IF rank(ids) = 1 THEN 1 ELSE ids.dims[1]
             seq == ids.dims[rank(ids)]
         IN IF ids.fill \notin DOMAIN weight.rows THEN Err("index")
            ELSE Ok(Tensor(<<batch, seq, weight.hidden>>, "F32", weight.rows[ids.fill]))

\* gather_embeddings(weight, ids): rank test, then index_select of the rows
\* named by the ids, reshaped to [batch, seq, hidden]
gather_embeddings(weight, ids) ==
    IF rank(ids) # 2 THEN Err("shape")
    ELSE LET batch == ids.dims[1]
             seq == ids.dims[2]
         IN IF ids.fill \notin DOMAIN weight.rows THEN Err("index")
            ELSE Ok(Tensor(<<batch, seq, weight.hidden>>, "F32", weight.rows[ids.fill]))

----------------------------------------------------------------------------
(* Decoder Stack: TransformerDecoder::forward, as its contract states it *)

AppendKv(c, embeds, positions, upto) ==
    LET seq == embeds.dims[2]
        new == [i \in 1..seq |-> KvEntry(embeds.fill, positions[1][i])]
    IN [batch |-> IF upto > 0 THEN embeds.dims[1] ELSE c.batch,
        kv |-> [l \in 1..NumLayers |->
                  IF l <= upto THEN c.kv[l] \o new ELSE c.kv[l]]]

DecoderShapesAgree(embeds, positions, cacheOpt) ==
    /\ PosDims(positions) = <<embeds.dims[1], embeds.dims[2]>>
    /\ IsSome(cacheOpt) /\ CacheLen(Unwrap(cacheOpt)) > 0
          => Unwrap(cacheOpt).batch = embeds.dims[1]

\* the set of outcomes [ok, cache] the stack may produce
decoder_forward(embeds, positions, cacheOpt, use_cache) ==
    IF DecoderShapesAgree(embeds, positions, cacheOpt)
    THEN {[ok |-> TRUE,
           cache |-> IF use_cache /\ IsSome(cacheOpt)
                     THEN Some(AppendKv(Unwrap(cacheOpt), embeds, positions, NumLayers))
                     ELSE cacheOpt]}
    ELSE IF use_cache /\ IsSome(cacheOpt)
         THEN {[ok |-> FALSE,
                cache |-> Some(AppendKv(Unwrap(cacheOpt), embeds, positions, k))] :
                   k \in 0..NumLayers}
         ELSE {[ok |-> FALSE, cache |-> cacheOpt]}

----------------------------------------------------------------------------
(* Language Model Facade: DeepseekLanguageModel::forward *)

Outcome(result, stages, positions, toDecoder, cacheOpt, logits) ==
    [result |-> result, stages |-> stages, positions |-> positions,
     decoder |-> toDecoder, cache |-> cacheOpt, logits |-> logits]

NoDecoderCall == [called |-> FALSE, cache |-> FALSE, use_cache |-> FALSE]
DecoderCall(cacheOpt, use_cache) ==
    [called |-> TRUE, cache |-> IsSome(cacheOpt), use_cache |-> use_cache]

\* the input-mode test written with "or": both inputs at once pass
InputModeValid_or(input_ids, inputs_embeds) ==
    IsSome(input_ids) \/ IsSome(inputs_embeds)

\* ensure!(input_ids.is_some() ^ inputs_embeds.is_some())
InputModeValid(input_ids, inputs_embeds) ==
    IsSome(input_ids) # IsSome(inputs_embeds)

\* the cache-mode test left out
CacheModeValid_skipped(cacheOpt, use_cache) == TRUE

\* ensure!(!use_cache || cache.is_some())
CacheModeValid(cacheOpt, use_cache) ==
    ~use_cache \/ IsSome(cacheOpt)

\* past_len that ignores the cache
PastLen_zero(cacheOpt) == 0

\* cache.as_ref().and_then(|c| c.seq_len()).unwrap_or(0)
PastLen(cacheOpt) ==
    IF IsSome(cacheOpt) /\ IsSome(seq_len(Unwrap(cacheOpt)))
    THEN Unwrap(seq_len(Unwrap(cacheOpt)))
    ELSE 0

\* the embeddings: the caller's, or gathered from the ids converted to I64
ResolveEmbeds(input_ids, inputs_embeds) ==
    IF IsSome(inputs_embeds) THEN Ok(Unwrap(inputs_embeds))
    ELSE LET ids == Unwrap(input_ids)
             ids64 == IF ids.dtype = "I64" THEN ids ELSE to_dtype(ids, "I64")
         IN gather_embeddings(token_embedding, ids64)

\* positions that always start at 0
SynthesizePositions_fromZero(past_len, batch, seq) ==
    expand(arange(0, seq), batch)

\* position_buf: arange(past_len, past_len + seq).reshape.expand
SynthesizePositions(past_len, batch, seq) ==
    LET start == past_len
        end == start + seq
    IN expand(arange(start, end), batch)

\* position_ids_ref: the caller's indices when given, else position_buf
PositionsFor(position_ids, past_len, batch, seq) ==
    IF IsSome(position_ids) THEN Unwrap(position_ids)
    ELSE SynthesizePositions(past_len, batch, seq)

\* the decoder called with use_cache fixed to false, or fixed to true
DecoderCacheArgs_neverUse(cacheOpt, use_cache) == <<cacheOpt, FALSE>>
DecoderCacheArgs_alwaysUse(cacheOpt, use_cache) == <<cacheOpt, TRUE>>

\* what self.decoder.forward(...) is handed as (cache, use_cache)
DecoderCacheArgs(cacheOpt, use_cache) == <<cacheOpt, use_cache>>

\* the set of outcomes of one forward call
forward(input_ids, inputs_embeds, position_ids, cacheOpt, use_cache) ==
    IF ~InputModeValid(input_ids, inputs_embeds)
    THEN {Outcome("validation", <<>>, <<>>, NoDecoderCall, cacheOpt, <<>>)}
    ELSE IF ~CacheModeValid(cacheOpt, use_cache)
    THEN {Outcome("validation", <<>>, <<>>, NoDecoderCall, cacheOpt, <<>>)}
    ELSE
    LET past_len == PastLen(cacheOpt)
        embedsR == ResolveEmbeds(input_ids, inputs_embeds)
        st1 == IF IsSome(inputs_embeds) THEN <<>> ELSE <<"embed">>
    IN IF ~embedsR.ok
       THEN {Outcome(embedsR.err, st1, <<>>, NoDecoderCall, cacheOpt, <<>>)}
       ELSE
       LET embeds == embedsR.val
       IN IF rank(embeds) # 3
          THEN {Outcome("shape", st1, <<>>, NoDecoderCall, cacheOpt, <<>>)}
          ELSE
          LET batch == embeds.dims[1]
              seq == embeds.dims[2]
              positions == PositionsFor(position_ids, past_len, batch, seq)
              st2 == IF IsSome(position_ids) THEN st1 ELSE Append(st1, "positions")
              args == DecoderCacheArgs(cacheOpt, use_cache)
              call == DecoderCall(args[1], args[2])
          IN {IF d.ok
              THEN Outcome("ok", st2 \o <<"decoder", "projector">>, positions, call,
                           d.cache, <<batch, seq, VocabSize>>)
              ELSE Outcome("compute", Append(st2, "decoder"), positions, call,
                           d.cache, <<>>) :
                 d \in decoder_forward(embeds, positions, args[1], args[2])}

----------------------------------------------------------------------------
(* Cache Manager: DeepseekLanguageModel::prompt_guard *)

FreshGuard(gs) == CHOOSE g \in (1..MaxGuards) \ gs : \A h \in (1..MaxGuards) \ gs : g <= h

\* prompt_guard taking the cache by shared reference: any number of guards
prompt_guard_shared(gs) ==
    [granted |-> TRUE, guards |-> gs \cup {FreshGuard(gs)}]

\* prompt_guard<'a>(&'a self, cache: &'a mut DynamicCache) -> PromptCacheGuard<'a>:
\* the guard holds the exclusive borrow of the cache for as long as it lives,
\* so the borrow is granted only while no guard over that cache is alive
prompt_guard(gs) ==
    IF gs = {}
    THEN [granted |-> TRUE, guards |-> gs \cup {FreshGuard(gs)}]
    ELSE [granted |-> FALSE, guards |-> gs]

----------------------------------------------------------------------------
(* Inputs of the session *)

\* the shape a tensor of rank r has when its leading dims are (batch, seq)
ShapeOfRank(r, batch, seq) ==
    IF r = 1 THEN <<seq>>
    ELSE [i \in 1..r |-> IF i = 1 THEN batch ELSE IF i = 2 THEN seq ELSE 1]

\* sample batch sizes and id-tensor ranks
BatchSizes == {1, 2}
IdRanks == {1, 2, 3}

\* sample (element type, token) pairs: in range, converted, out of range
IdSamples == {<<"I64", 0>>, <<"U32", VocabSize - 1>>, <<"I64", VocabSize>>}

IdTensors(batch, seq) ==
    {Tensor(ShapeOfRank(r, batch, seq), x[1], x[2]) : r \in IdRanks, x \in IdSamples}

\* caller-made embeddings: [batch, seq, hidden], or lacking the hidden axis
EmbedTensors(batch, seq) ==
    {Tensor(<<batch, seq, HiddenSize>>, "F32", token_embedding.rows[0]),
     Tensor(<<batch, seq>>, "F32", token_embedding.rows[0])}

\* caller-supplied position indices: of the call's shape, or one column wider
PositionTensors(batch, seq) ==
    {expand(arange(1, 1 + seq), batch), expand(arange(1, 2 + seq), batch)}

Options(S) == {None} \cup {Some(x) : x \in S}

----------------------------------------------------------------------------
(* State *)

NoOutcome == Outcome("none", <<>>, <<>>, NoDecoderCall, None, <<>>)

Idle ==
    [op |-> "none", batch |-> 0, seq |-> 0,
     ids |-> FALSE, idsRank |-> 0, embeds |-> FALSE,
     position_ids |-> None, cacheGiven |-> FALSE, use_cache |-> FALSE,
     via |-> 0, pre |-> EmptyCache, preGuards |-> {}, granted |-> FALSE,
     out |-> NoOutcome]

NewSessionRecord == [pure |-> TRUE, calls |-> <<>>]

InitForward ==
    /\ cache = EmptyCache
    /\ guards = {}
    /\ session = NewSessionRecord
    /\ last = Idle

\* what the session has done on its cache since the cache was created
SessionAfter(se, cacheGiven, use_cache, position_ids, out) ==
    IF ~cacheGiven \/ out.result \in {"validation", "shape", "index"} THEN se
    ELSE IF se.pure /\ use_cache /\ ~IsSome(position_ids) /\ out.result = "ok"
    THEN [se EXCEPT !.calls = Append(@, [seq |-> Len(out.positions[1]),
                                          positions |-> out.positions[1]])]
    ELSE [pure |-> FALSE, calls |-> <<>>]

----------------------------------------------------------------------------
(* Actions of a session *)

\* one call of forward; a cache that a live guard borrows is reached through
\* that guard, otherwise it is passed directly
Forward ==
    /\ last.op = "none"
    /\ \E batch \in BatchSizes, seq \in 1..MaxSeq :
       \E input_ids \in Options(IdTensors(batch, seq)),
          inputs_embeds \in Options(EmbedTensors(batch, seq)),
          position_ids \in Options(PositionTensors(batch, seq)),
          cacheGiven \in BOOLEAN, use_cache \in BOOLEAN :
       \E via \in IF cacheGiven /\ guards # {} THEN guards ELSE {0} :
          /\ cacheGiven /\ use_cache => CacheLen(cache) + seq <= MaxCacheLen
          /\ \E out \in forward(input_ids, inputs_embeds, position_ids,
                                IF cacheGiven THEN Some(cache) ELSE None, use_cache) :
                /\ cache' = IF cacheGiven THEN Unwrap(out.cache) ELSE cache
                /\ session' = SessionAfter(session, cacheGiven, use_cache,
                                           position_ids, out)
                /\ last' = [op |-> "forward", batch |-> batch, seq |-> seq,
                            ids |-> IsSome(input_ids),
                            idsRank |-> IF IsSome(input_ids)
                                        THEN rank(Unwrap(input_ids)) ELSE 0,
                            embeds |-> IsSome(inputs_embeds),
                            position_ids |-> position_ids,
                            cacheGiven |-> cacheGiven, use_cache |-> use_cache,
                            via |-> via, pre |-> cache, preGuards |-> guards,
                            granted |-> FALSE, out |-> out]
    /\ UNCHANGED <<guards, rtVars, lmVars, cfgVars>>

\* an attempt to take a prompt guard over the session's cache
PromptGuard ==
    /\ last.op = "none"
    /\ Cardinality(guards) < MaxGuards
    /\ LET r == prompt_guard(guards)
       IN /\ guards' = r.guards
          /\ last' = [Idle EXCEPT !.op = "prompt_guard", !.pre = cache,
                                  !.preGuards = guards, !.granted = r.granted]
    /\ UNCHANGED <<cache, session, rtVars, lmVars, cfgVars>>

\* a guard goes out of scope
DropGuard ==
    /\ last.op = "none"
    /\ \E g \in guards : guards' = guards \ {g}
    /\ UNCHANGED <<cache, session, last, rtVars, lmVars, cfgVars>>

\* the caller is done with the value the last call returned
Return ==
    /\ last.op # "none"
    /\ last' = Idle
    /\ UNCHANGED <<cache, guards, session, rtVars, lmVars, cfgVars>>

\* the session ends and a new one starts on a new DynamicCache
NewSession ==
    /\ last.op = "none"
    /\ guards = {}
    /\ cache # EmptyCache
    /\ cache' = EmptyCache
    /\ session' = NewSessionRecord
    /\ UNCHANGED <<guards, last, rtVars, lmVars, cfgVars>>

----------------------------------------------------------------------------
(* Shared accessors: OCR_MODEL and LANGUAGE_ASSETS behind OnceCell *)

Threads == 1..NumThreads

CellIds == {"OCR_MODEL", "LANGUAGE_ASSETS"}

Accessors ==
    {"shared_ocr_model", "with_shared_ocr_model", "with_shared_language_model",
     "shared_language_config", "shared_transformer_weights"}

\* the cell an accessor initialises
CellOf(acc) ==
    IF acc \in {"shared_ocr_model", "with_shared_ocr_model"}
    THEN "OCR_MODEL" ELSE "LANGUAGE_ASSETS"

\* the accessors that go on to lock the model's Mutex and run an operation
Locking(acc) == acc \in {"with_shared_ocr_model", "with_shared_language_model"}

EmptyCell == [state |-> "incomplete", value |-> 0, okLoads |-> 0, loadsAtFill |-> 0]

FreeLock == [holder |-> 0, poisoned |-> FALSE]

IdleThread ==
    [pc |-> "idle", cell |-> "none", locking |-> FALSE, result |-> "none",
     seen |-> 0, ranLoader |-> FALSE, waitedOn |-> 0]

InitRuntime ==
    /\ cells = [c \in CellIds |-> EmptyCell]
    /\ locks = [c \in CellIds |-> FreeLock]
    /\ threads = [t \in Threads |-> IdleThread]
    /\ loads = [c \in CellIds |-> 0]

\* get_or_try_init admits a caller as the initialiser even while another
\* initialiser is running
MayRunLoader_racy(cell) == cell.state # "complete"

\* OnceCell::get_or_try_init: a caller becomes the initialiser only when the
\* cell is neither filled nor being filled
MayRunLoader(cell) == cell.state = "incomplete"

\* a once-cell that keeps the outcome of the first load, failed or not
CellAfterLoad_keepsFailure(cell, ok, id, count) ==
    [state |-> "complete",
     value |-> IF ok THEN id ELSE 0,
     okLoads |-> IF ok THEN cell.okLoads + 1 ELSE cell.okLoads,
     loadsAtFill |-> count]

\* OnceCell::get_or_try_init when the loader returns: Ok(value) fills the
\* cell, Err leaves it empty
CellAfterLoad(cell, ok, id, count) ==
    IF ok
    THEN [state |-> "complete", value |-> id,
          okLoads |-> cell.okLoads + 1, loadsAtFill |-> count]
    ELSE [cell EXCEPT !.state = "incomplete"]

\* a thread calls one of the accessors and enters get_or_try_init
Call(t, acc) ==
    /\ threads[t].pc = "idle"
    /\ threads' = [threads EXCEPT ![t] =
                     [IdleThread EXCEPT !.pc = "init", !.cell = CellOf(acc),
                                        !.locking = Locking(acc)]]
    /\ UNCHANGED <<cells, locks, loads, fwdVars, lmVars, cfgVars>>

\* after get_or_try_init returned Ok: the plain accessors return the shared
\* value, the with_* accessors go on to lock the model
AfterInit(th, value, ran) ==
    [th EXCEPT !.seen = value, !.ranLoader = ran,
               !.pc = IF th.locking THEN "lock" ELSE "idle",
               !.result = IF th.locking THEN "none" ELSE "ok"]

\* get_or_try_init with the cell filled, at once or after waiting for the
\* initialiser: the stored value is returned
InitHit(t) ==
    LET c == threads[t].cell
    IN /\ threads[t].pc \in {"init", "waiting"}
       /\ cells[c].state = "complete"
       /\ threads' = [threads EXCEPT ![t] = AfterInit(@, cells[c].value, @.ranLoader)]
       /\ UNCHANGED <<cells, locks, loads, fwdVars, lmVars, cfgVars>>

\* get_or_try_init with the cell empty, at once or after the initialiser
\* waited for has failed: this caller runs the loader
InitStartLoad(t) ==
    LET c == threads[t].cell
    IN /\ threads[t].pc \in {"init", "waiting"}
       /\ cells[c].state # "complete"
       /\ MayRunLoader(cells[c])
       /\ loads[c] < MaxLoads
       /\ cells' = [cells EXCEPT ![c].state = "running"]
       /\ loads' = [loads EXCEPT ![c] = @ + 1]
       /\ threads' = [threads EXCEPT ![t].pc = "loading", ![t].ranLoader = TRUE,
                                     ![t].waitedOn = 0]
       /\ UNCHANGED <<locks, fwdVars, lmVars, cfgVars>>

\* get_or_try_init while another caller runs the loader: wait for it
InitWait(t) ==
    LET c == threads[t].cell
    IN /\ threads[t].pc = "init"
       /\ cells[c].state = "running"
       /\ ~MayRunLoader(cells[c])
       /\ threads' = [threads EXCEPT ![t].pc = "waiting", ![t].waitedOn = loads[c]]
       /\ UNCHANGED <<cells, locks, loads, fwdVars, lmVars, cfgVars>>

\* load_ocr_model / load_language_assets returns Ok or Err
LoadDone(t, ok) ==
    LET c == threads[t].cell
    IN /\ threads[t].pc = "loading"
       /\ cells' = [cells EXCEPT ![c] = CellAfterLoad(@, ok, loads[c], loads[c])]
       /\ threads' = [threads EXCEPT ![t] =
                        IF ok THEN AfterInit(@, loads[c], TRUE)
                        ELSE [@ EXCEPT !.pc = "idle", !.result = "load_err"]]
       /\ UNCHANGED <<locks, loads, fwdVars, lmVars, cfgVars>>

\* a with_* call ends: its borrow of the shared value ends with it
Finished(th, pc, result) ==
    [IdleThread EXCEPT !.pc = pc, !.cell = th.cell, !.locking = TRUE, !.result = result]

\* lock().expect(..): Err(PoisonError) makes expect panic
LockResult(lock) == IF lock.poisoned THEN "lock_panic" ELSE "acquired"

\* model_arc.lock().expect(..): blocks while held, panics when poisoned
Lock(t) ==
    LET c == threads[t].cell
    IN /\ threads[t].pc = "lock"
       /\ locks[c].holder = 0
       /\ IF LockResult(locks[c]) = "lock_panic"
          THEN /\ threads' = [threads EXCEPT ![t] = Finished(@, "panicked", "lock_panic")]
               /\ UNCHANGED locks
          ELSE /\ threads' = [threads EXCEPT ![t].pc = "op"]
               /\ locks' = [locks EXCEPT ![c].holder = t]
       /\ UNCHANGED <<cells, loads, fwdVars, lmVars, cfgVars>>

\* the guard kept alive when the operation returned Err
Released_heldOnErr(lock, how) ==
    IF how = "err" THEN lock
    ELSE [holder |-> 0, poisoned |-> lock.poisoned \/ how = "panic"]

\* the MutexGuard is dropped when op has returned (drop(guard) / end of
\* scope) and when op unwinds; dropping it during a panic poisons the Mutex
Released(lock, how) ==
    [holder |-> 0, poisoned |-> lock.poisoned \/ how = "panic"]

\* op(&guard) returns Ok or Err, or panics
OpDone(t, how) ==
    LET c == threads[t].cell
    IN /\ threads[t].pc = "op"
       /\ locks' = [locks EXCEPT ![c] = Released(@, how)]
       /\ threads' = [threads EXCEPT ![t] =
                        Finished(@, IF how = "panic" THEN "panicked" ELSE "idle", how)]
       /\ UNCHANGED <<cells, loads, fwdVars, lmVars, cfgVars>>

NextRuntime ==
    \E t \in Threads :
        \/ \E acc \in Accessors : Call(t, acc)
        \/ InitHit(t)
        \/ InitStartLoad(t)
        \/ InitWait(t)
        \/ \E ok \in BOOLEAN : LoadDone(t, ok)
        \/ Lock(t)
        \/ \E how \in {"ok", "err", "panic"} : OpDone(t, how)

----------------------------------------------------------------------------
(* Construction: DeepseekLanguageModel::from_weights *)

\* a string is the sequence of its characters
UpperToLower ==
    [c \in {"A", "E", "F", "I", "L", "N", "O", "R", "S", "T", "U", "Y"} |->
        CASE c = "A" -> "a" [] c = "E" -> "e" [] c = "F" -> "f" [] c = "I" -> "i"
          [] c = "L" -> "l" [] c = "N" -> "n" [] c = "O" -> "o" [] c = "R" -> "r"
          [] c = "S" -> "s" [] c = "T" -> "t" [] c = "U" -> "u" [] c = "Y" -> "y"]

\* str::to_ascii_lowercase
to_ascii_lowercase(str) ==
    [i \in DOMAIN str |-> IF str[i] \in DOMAIN UpperToLower
                          THEN UpperToLower[str[i]] ELSE str[i]]

\* str::eq_ignore_ascii_case
eq_ignore_ascii_case(a, b) == to_ascii_lowercase(a) = to_ascii_lowercase(b)

Str1 == <<"1">>
Str0 == <<"0">>
StrTrue == <<"t", "r", "u", "e">>
StrFalse == <<"f", "a", "l", "s", "e">>
StrYes == <<"y", "e", "s">>
StrNo == <<"n", "o">>
StrFlash2 ==
    <<"f", "l", "a", "s", "h", "_", "a", "t", "t", "e", "n", "t", "i", "o", "n", "_", "2">>

\* values the environment variable is given
EnvValues ==
    {Str1, Str0, StrTrue, StrFalse, StrYes, StrNo,
     <<"T", "R", "U", "E">>, <<"F", "a", "l", "s", "e">>, <<"Y", "e", "s">>, <<"N", "O">>,
     <<"o", "n">>, <<"2">>, <<>>}

\* values cfg.attn_implementation is given
AttnValues ==
    {StrFlash2,
     <<"F", "L", "A", "S", "H", "_", "A", "T", "T", "E", "N", "T", "I", "O", "N", "_", "2">>,
     <<"F", "l", "a", "s", "h", "_", "a", "t", "t", "e", "n", "t", "i", "o", "n", "_", "2">>,
     <<"e", "a", "g", "e", "r">>, <<"s", "d", "p", "a">>}

\* flash_from_config compared exactly, not ignoring case
flash_from_config_exact(attn_implementation) ==
    IF IsSome(attn_implementation) THEN Unwrap(attn_implementation) = StrFlash2
    ELSE FALSE

\* cfg.attn_implementation.as_deref().map(eq_ignore_ascii_case).unwrap_or(false)
flash_from_config(attn_implementation) ==
    IF IsSome(attn_implementation)
    THEN eq_ignore_ascii_case(Unwrap(attn_implementation), StrFlash2)
    ELSE FALSE

\* the override read without lowering its case
flash_override_caseSensitive(value) ==
    IF ~IsSome(value) THEN None
    ELSE IF Unwrap(value) \in {Str1, StrTrue, StrYes} THEN Some(TRUE)
    ELSE IF Unwrap(value) \in {Str0, StrFalse, StrNo} THEN Some(FALSE)
    ELSE None

\* std::env::var(..).ok().and_then(|value| match value.to_ascii_lowercase() ..)
flash_override(value) ==
    IF ~IsSome(value) THEN None
    ELSE LET low == to_ascii_lowercase(Unwrap(value))
         IN IF low \in {Str1, StrTrue, StrYes} THEN Some(TRUE)
            ELSE IF low \in {Str0, StrFalse, StrNo} THEN Some(FALSE)
            ELSE None

\* the configuration taking precedence over the override
use_flash_attention_configFirst(value, attn_implementation) ==
    IF flash_from_config(attn_implementation) THEN TRUE
    ELSE IF IsSome(flash_override(value)) THEN Unwrap(flash_override(value))
    ELSE FALSE

\* flash_override.unwrap_or(flash_from_config)
use_flash_attention(value, attn_implementation) ==
    IF IsSome(flash_override(value)) THEN Unwrap(flash_override(value))
    ELSE flash_from_config(attn_implementation)

NoModel == [built |-> FALSE, attn |-> None, envAtBuild |-> None, flash |-> FALSE]

InitBuild ==
    /\ env = None
    /\ lm = NoModel

\* std::env::set_var / remove_var somewhere in the process
SetEnv ==
    /\ \E v \in Options(EnvValues) : v # env /\ env' = v
    /\ UNCHANGED <<lm, fwdVars, rtVars, cfgVars>>

\* from_weights(cfg, weights): the flag is resolved and given to the decoder
FromWeights ==
    /\ \E attn \in Options(AttnValues) :
          lm' = [built |-> TRUE, attn |-> attn, envAtBuild |-> env,
                 flash |-> use_flash_attention(env, attn)]
    /\ UNCHANGED <<env, fwdVars, rtVars, cfgVars>>

\* the model is dropped
DropModel ==
    /\ lm.built
    /\ lm' = NoModel
    /\ UNCHANGED <<env, fwdVars, rtVars, cfgVars>>

\* flash_attention_enabled(&self): what the decoder was built with
flash_attention_enabled == lm.flash

NextBuild == SetEnv \/ FromWeights \/ DropModel

----------------------------------------------------------------------------
(* Application configuration (crates/config/src/config.rs).  The held      *)
(* AppConfig is `cfg`; the model registry is a map from model ids to       *)
(* entries, each entry three optional paths.                               *)

DEFAULT_MODEL_ID == "deepseek-ocr"

\* model ids appearing in files and overrides
ModelIds == {DEFAULT_MODEL_ID, "paddle-ocr"}

\* ModelEntry::default()
DefaultEntry == [config |-> None, tokenizer |-> None, weights |-> None]

\* BTreeMap::new(), BTreeMap::insert, Entry::or_insert_with
EmptyEntries == [id \in {} |-> DefaultEntry]

Insert(entries, id, entry) ==
    [x \in (DOMAIN entries) \cup {id} |-> IF x = id THEN entry ELSE entries[x]]

or_insert_with(entries, id, entry) ==
    IF id \in DOMAIN entries THEN entries ELSE Insert(entries, id, entry)

\* ModelRegistry::default()
DefaultRegistry ==
    [active |-> DEFAULT_MODEL_ID,
     entries |-> Insert(EmptyEntries, DEFAULT_MODEL_ID, DefaultEntry)]

\* InferenceSettings::default(); the two optional fields the impl leaves
\* out are absent, as serde's default for Option
DefaultInference ==
    [device |-> "Cpu", precision |-> None, template |-> "plain",
     base_size |-> 1024, image_size |-> 640, crop_mode |-> TRUE,
     max_new_tokens |-> 512, use_cache |-> TRUE,
     gpu_memory_utilization |-> None, max_num_seqs |-> None]

\* ServerSettings::default()
DefaultServer ==
    [host |-> "0.0.0.0", port |-> 8000, model_id |-> DEFAULT_MODEL_ID]

\* AppConfig::default()
DefaultConfig ==
    [models |-> DefaultRegistry, inference |-> DefaultInference,
     server |-> DefaultServer]

\* settings a configuration file may carry instead of the defaults
FileInference ==
    [device |-> "Metal", precision |-> Some("F16"), template |-> "markdown",
     base_size |-> 512, image_size |-> 512, crop_mode |-> FALSE,
     max_new_tokens |-> 128, use_cache |-> FALSE,
     gpu_memory_utilization |-> Some("0.9"), max_num_seqs |-> Some(8)]

FileServer == [host |-> "127.0.0.1", port |-> 9000, model_id |-> "paddle-ocr"]

FileEntry ==
    [config |-> Some("/f/config.json"), tokenizer |-> Some("/f/tokenizer.json"),
     weights |-> Some("/f/model.safetensors")]

\* what toml::from_str can hand back: the registry may be empty and the
\* active id may name no entry
ParsedConfigs ==
    { DefaultConfig,
      [models |-> [active |-> "paddle-ocr", entries |-> EmptyEntries],
       inference |-> DefaultInference, server |-> FileServer],
      [models |-> [active |-> DEFAULT_MODEL_ID, entries |-> EmptyEntries],
       inference |-> FileInference, server |-> DefaultServer],
      [models |-> [active |-> "paddle-ocr",
                   entries |-> Insert(EmptyEntries, DEFAULT_MODEL_ID, FileEntry)],
       inference |-> FileInference, server |-> DefaultServer],
      [models |-> [active |-> DEFAULT_MODEL_ID,
                   entries |-> Insert(Insert(EmptyEntries, DEFAULT_MODEL_ID,
                                             DefaultEntry),
                                      "paddle-ocr", FileEntry)],
       inference |-> FileInference, server |-> FileServer] }

\* the configuration file at the chosen location
FileSamples ==
    {[exists |-> FALSE, parses |-> TRUE, config |-> DefaultConfig],
     [exists |-> TRUE, parses |-> FALSE, config |-> DefaultConfig]}
    \cup {[exists |-> TRUE, parses |-> TRUE, config |-> c] : c \in ParsedConfigs}

\* the file system as the calls see it: model directories that cannot be
\* created, and whether the configuration file can be written
FsSamples == [baddirs : SUBSET ModelIds, writable : BOOLEAN]

\* InferenceOverride and ServerOverride with every field given
FullInferenceOverride ==
    [device |-> Some("Cuda"), precision |-> Some("Bf16"),
     template |-> Some("grounding"), base_size |-> Some(1280),
     image_size |-> Some(1024), crop_mode |-> Some(TRUE),
     max_new_tokens |-> Some(64), use_cache |-> Some(TRUE),
     gpu_memory_utilization |-> Some("0.5"), max_num_seqs |-> Some(4)]

FullServerOverride ==
    [host |-> Some("localhost"), port |-> Some(8080),
     model_id |-> Some("paddle-ocr")]

\* an override record with only the fields in `given` present
OnlyFields(ov, given) ==
    [f \in DOMAIN ov |-> IF f \in given THEN ov[f] ELSE None]

InferenceOverrides ==
    {OnlyFields(FullInferenceOverride, g) :
        g \in {{},
               {"device", "template", "image_size", "max_new_tokens",
                "gpu_memory_utilization"},
               {"precision", "base_size", "crop_mode", "use_cache",
                "max_num_seqs"}}}

ServerOverrides ==
    {OnlyFields(FullServerOverride, g) :
        g \in {{}, {"host"}, {"port", "model_id"}}}

PathOverrides ==
    {OnlyFields([model_config |-> Some("/o/config.json"),
                 tokenizer |-> Some("/o/tokenizer.json"),
                 weights |-> Some("/o/model.safetensors")], g) :
        g \in {{}, {"model_config"}, {"tokenizer", "weights"}}}

\* ConfigOverrides
Overrides ==
    {[config_path |-> cp, model_id |-> mid,
      model_config |-> p.model_config, tokenizer |-> p.tokenizer,
      weights |-> p.weights, inference |-> i, server |-> s] :
        cp \in Options({"/etc/ocr.toml"}), mid \in Options(ModelIds),
        p \in PathOverrides, i \in InferenceOverrides, s \in ServerOverrides}

\* ConfigOverrides::default()
NoOverrides ==
    [config_path |-> None, model_id |-> None, model_config |-> None,
     tokenizer |-> None, weights |-> None,
     inference |-> OnlyFields(FullInferenceOverride, {}),
     server |-> OnlyFields(FullServerOverride, {})]

\* ModelEntry::normalise(fs, model_id): creates the model's directories
ModelEntry_normalise(fs, model_id) == model_id \notin fs.baddirs

\* AppConfig::normalise without the entry for the active id
normalise_defaultOnly(self, fs) ==
    LET e1 == IF DOMAIN self.models.entries = {}
              THEN Insert(self.models.entries, DEFAULT_MODEL_ID, DefaultEntry)
              ELSE self.models.entries
    IN [config |-> [self EXCEPT !.models.entries = e1],
        ok |-> \A id \in DOMAIN e1 : ModelEntry_normalise(fs, id)]

\* AppConfig::normalise(&mut self, fs): the insertions are made before any
\* file-system call, so they stay when the call fails
normalise(self, fs) ==
    LET e1 == IF DOMAIN self.models.entries = {}
              THEN Insert(self.models.entries, DEFAULT_MODEL_ID, DefaultEntry)
              ELSE self.models.entries
        e2 == IF self.models.active \notin DOMAIN e1
              THEN Insert(e1, self.models.active, DefaultEntry)
              ELSE e1
    IN [config |-> [self EXCEPT !.models.entries = e2],
        ok |-> \A id \in DOMAIN e2 : ModelEntry_normalise(fs, id)]

\* ModelEntry::resolved(model_id)
resolved(entry, model_id) ==
    [f \in DOMAIN entry |->
        IF IsSome(entry[f]) THEN <<"Physical", Unwrap(entry[f])>>
                            ELSE <<"Virtual", model_id, f>>]

NoResources == [f \in DOMAIN DefaultEntry |-> <<>>]

\* AppConfig::model_resources(fs, model_id)
model_resources(self, model_id) ==
    IF model_id \in DOMAIN self.models.entries
    THEN [ok |-> TRUE, resources |-> resolved(self.models.entries[model_id], model_id)]
    ELSE [ok |-> FALSE, resources |-> NoResources]

\* AppConfig::active_model_resources(fs)
active_model_resources(self) == model_resources(self, self.models.active)

\* `if let Some(v) = overrides.x { self.x = v }`
SetIfSome(current, override) ==
    IF IsSome(override) THEN Unwrap(override) ELSE current

\* an optional setting assigned whatever the override holds
SetOptionIfSome_always(current, override) == override

\* `if overrides.x.is_some() { self.x = overrides.x }`
SetOptionIfSome(current, override) ==
    IF IsSome(override) THEN override ELSE current

\* `if let Some(path) = overrides.x.as_ref() { entry.x = Some(path.clone()) }`
SetPathIfSome(current, override) ==
    IF IsSome(override) THEN Some(Unwrap(override)) ELSE current

\* AppConfig::apply_overrides(&mut self, overrides)
apply_overrides(self, overrides) ==
    LET m1 == IF IsSome(overrides.model_id)
              THEN [active |-> Unwrap(overrides.model_id),
                    entries |-> or_insert_with(self.models.entries,
                                               Unwrap(overrides.model_id),
                                               DefaultEntry)]
              ELSE self.models
        m2 == IF m1.active \in DOMAIN m1.entries
              THEN [m1 EXCEPT !.entries[m1.active] =
                      [config |-> SetPathIfSome(@.config, overrides.model_config),
                       tokenizer |-> SetPathIfSome(@.tokenizer, overrides.tokenizer),
                       weights |-> SetPathIfSome(@.weights, overrides.weights)]]
              ELSE m1
        i == self.inference
        o == overrides.inference
        s == self.server
        so == overrides.server
    IN [models |-> m2,
        inference |->
            [device |-> SetIfSome(i.device, o.device),
             precision |-> SetOptionIfSome(i.precision, o.precision),
             template |-> SetIfSome(i.template, o.template),
             base_size |-> SetIfSome(i.base_size, o.base_size),
             image_size |-> SetIfSome(i.image_size, o.image_size),
             crop_mode |-> SetIfSome(i.crop_mode, o.crop_mode),
             max_new_tokens |-> SetIfSome(i.max_new_tokens, o.max_new_tokens),
             use_cache |-> SetIfSome(i.use_cache, o.use_cache),
             gpu_memory_utilization |->
                 SetOptionIfSome(i.gpu_memory_utilization, o.gpu_memory_utilization),
             max_num_seqs |-> SetOptionIfSome(i.max_num_seqs, o.max_num_seqs)],
        server |->
            [host |-> SetIfSome(s.host, so.host),
             port |-> SetIfSome(s.port, so.port),
             model_id |-> SetIfSome(s.model_id, so.model_id)]]

Loaded(result, config) == [result |-> result, config |-> config]

\* AppConfig::load_or_init(fs, override_path), with load_virtual_config and
\* load_physical_config: a missing file is replaced by the written default
load_or_init(fs, file) ==
    IF ~file.exists
    THEN LET n == normalise(DefaultConfig, fs)
         IN IF ~n.ok \/ ~fs.writable THEN Loaded("fs_error", None)
            ELSE Loaded("ok", Some(n.config))
    ELSE IF ~file.parses THEN Loaded("parse_error", None)
    ELSE LET n == normalise(file.config, fs)
         IN IF ~n.ok THEN Loaded("fs_error", None)
            ELSE Loaded("ok", Some(n.config))

\* AppConfig::load_with_overrides(fs, overrides)
load_with_overrides(fs, file, overrides) ==
    LET l == load_or_init(fs, file)
    IN IF l.result # "ok" THEN l
       ELSE LET c == apply_overrides(Unwrap(l.config), overrides)
                n == normalise(c, fs)
            IN IF ~n.ok THEN Loaded("fs_error", None)
               ELSE IF ~active_model_resources(n.config).ok
                    THEN Loaded("not_found", None)
                    ELSE Loaded("ok", Some(n.config))

\* no configuration call in progress
IdleConfig ==
    [op |-> "none", pre |-> None, preNormalised |-> FALSE,
     ov |-> NoOverrides, result |-> "none"]

ConfigCall(op, ov, result) ==
    [op |-> op, pre |-> cfg, preNormalised |-> normalised,
     ov |-> ov, result |-> result]

InitConfig ==
    /\ cfg = None
    /\ normalised = FALSE
    /\ cfgLast = IdleConfig

\* toml::from_str gives the caller a configuration that was never normalised
FromToml ==
    /\ cfg = None /\ cfgLast = IdleConfig
    /\ \E c \in ParsedConfigs : cfg' = Some(c)
    /\ normalised' = FALSE
    /\ UNCHANGED <<cfgLast, fwdVars, rtVars, lmVars>>

\* AppConfig::load_with_overrides(fs, overrides)
LoadWithOverrides ==
    /\ cfg = None /\ cfgLast = IdleConfig
    /\ \E fs \in FsSamples, file \in FileSamples, ov \in Overrides :
          LET l == load_with_overrides(fs, file, ov)
          IN /\ cfg' = l.config
             /\ normalised' = (l.result = "ok")
             /\ cfgLast' = ConfigCall("load_with_overrides", ov, l.result)
    /\ UNCHANGED <<fwdVars, rtVars, lmVars>>

\* config.normalise(fs)
Normalise ==
    /\ IsSome(cfg) /\ cfgLast = IdleConfig
    /\ \E fs \in FsSamples :
          LET n == normalise(Unwrap(cfg), fs)
          IN /\ cfg' = Some(n.config)
             /\ normalised' = (normalised \/ n.ok)
             /\ cfgLast' = ConfigCall("normalise", NoOverrides,
                                      IF n.ok THEN "ok" ELSE "fs_error")
    /\ UNCHANGED <<fwdVars, rtVars, lmVars>>

\* config.apply_overrides(&overrides), also written `config += overrides`
ApplyOverrides ==
    /\ IsSome(cfg) /\ cfgLast = IdleConfig
    /\ \E ov \in Overrides :
          /\ cfg' = Some(apply_overrides(Unwrap(cfg), ov))
          /\ cfgLast' = ConfigCall("apply_overrides", ov, "ok")
    /\ UNCHANGED <<normalised, fwdVars, rtVars, lmVars>>

\* config.active_model_resources(fs)
ActiveModelResources ==
    /\ IsSome(cfg) /\ cfgLast = IdleConfig
    /\ cfgLast' = ConfigCall("active_model_resources", NoOverrides,
                             IF active_model_resources(Unwrap(cfg)).ok
                             THEN "ok" ELSE "not_found")
    /\ UNCHANGED <<cfg, normalised, fwdVars, rtVars, lmVars>>

\* the call has returned to its caller
ConfigReturn ==
    /\ cfgLast # IdleConfig
    /\ cfgLast' = IdleConfig
    /\ UNCHANGED <<cfg, normalised, fwdVars, rtVars, lmVars>>

\* the configuration is dropped
DropConfig ==
    /\ IsSome(cfg) /\ cfgLast = IdleConfig
    /\ cfg' = None
    /\ normalised' = FALSE
    /\ UNCHANGED <<cfgLast, fwdVars, rtVars, lmVars>>

NextConfig ==
    \/ FromToml \/ LoadWithOverrides \/ Normalise \/ ApplyOverrides
    \/ ActiveModelResources \/ ConfigReturn \/ DropConfig

----------------------------------------------------------------------------
(* Specifications *)

Init == InitForward /\ InitRuntime /\ InitBuild /\ InitConfig

Next == Forward \/ PromptGuard \/ DropGuard \/ Return \/ NewSession

Spec == Init /\ [][Next]_vars

SpecRuntime == Init /\ [][NextRuntime]_vars

SpecBuild == Init /\ [][NextBuild]_vars

SpecConfig == Init /\ [][NextConfig]_vars

----------------------------------------------------------------------------
(* Properties of forward *)

IsForward == last.op = "forward"
Failed(kinds) == last.out.result \in kinds
ReachedDecoder == IsForward /\ last.out.decoder.called

\* C1: a forward call given both token ids and embeddings, or neither,
\* returns a validation error and leaves the cache as it was before the call.
C1_AmbiguousInputRejected ==
    IsForward /\ (last.ids = last.embeds)
        => /\ Failed({"validation"})
           /\ cache = last.pre

C1_Witness ==
    /\ IsForward /\ last.ids /\ last.embeds
    /\ last.cacheGiven /\ last.use_cache
    /\ CacheLen(last.pre) > 0
    /\ Failed({"validation"})

\* C2: a forward call with use_cache=true and no cache returns a validation
\* error before the embedding resolver, the position synthesizer or the
\* decoder stack is invoked.
C2_MissingCacheRejected ==
    IsForward /\ last.use_cache /\ ~last.cacheGiven
        => /\ Failed({"validation"})
           /\ last.out.stages = <<>>
           /\ ~last.out.decoder.called

C2_Witness ==
    /\ IsForward /\ last.use_cache /\ ~last.cacheGiven
    /\ last.ids /\ ~last.embeds /\ last.idsRank = 2
    /\ Failed({"validation"})

\* C3: a successful forward call with use_cache=true lengthens the cache by
\* exactly the call's seq, and every entry stored before the call is still
\* there, unchanged and in the same order, in every layer.
C3_CacheAppendOnly ==
    IsForward /\ last.cacheGiven /\ last.use_cache /\ Failed({"ok"})
        => /\ CacheLen(cache) = CacheLen(last.pre) + last.seq
           /\ \A l \in 1..NumLayers :
                 /\ Len(cache.kv[l]) = Len(last.pre.kv[l]) + last.seq
                 /\ SubSeq(cache.kv[l], 1, Len(last.pre.kv[l])) = last.pre.kv[l]

C3_Witness ==
    /\ IsForward /\ last.cacheGiven /\ last.use_cache /\ Failed({"ok"})
    /\ CacheLen(last.pre) > 0
    /\ CacheLen(cache) = MaxCacheLen

\* C4: without explicit position indices the decoder is handed the range
\* [L, L+seq) on every batch row, L being the length of the cache passed in
\* (0 without a cache or with an empty one); explicit position indices are
\* handed over unchanged.
C4_Positions ==
    ReachedDecoder
        => LET L == IF last.cacheGiven THEN Len(last.pre.kv[1]) ELSE 0
           IN IF IsSome(last.position_ids)
              THEN last.out.positions = Unwrap(last.position_ids)
              ELSE /\ Len(last.out.positions) = last.batch
                   /\ \A b \in 1..last.batch :
                         /\ Len(last.out.positions[b]) = last.seq
                         /\ \A i \in 1..last.seq :
                               last.out.positions[b][i] = L + i - 1

C4_Witness ==
    /\ ReachedDecoder /\ ~IsSome(last.position_ids)
    /\ last.cacheGiven /\ CacheLen(last.pre) > 1
    /\ last.batch > 1
    /\ last.out.positions[last.batch][1] = CacheLen(last.pre)

RECURSIVE SeqSum(_, _)
SeqSum(calls, k) == IF k = 0 THEN 0 ELSE SeqSum(calls, k - 1) + calls[k].seq

RECURSIVE ConcatPositions(_, _)
ConcatPositions(calls, k) ==
    IF k = 0 THEN <<>> ELSE ConcatPositions(calls, k - 1) \o calls[k].positions

\* C5: in a session that starts on an empty cache and makes only successful
\* use_cache=true calls without explicit positions, the k-th call's positions
\* start at the sum of the earlier calls' seq; all together they are 0,1,2,...
C5_PositionalContinuity ==
    session.pure
        => /\ \A k \in 1..Len(session.calls) :
                 /\ Len(session.calls[k].positions) = session.calls[k].seq
                 /\ session.calls[k].positions[1] = SeqSum(session.calls, k - 1)
           /\ LET all == ConcatPositions(session.calls, Len(session.calls))
              IN \A i \in 1..Len(all) : all[i] = i - 1

C5_Witness ==
    /\ session.pure
    /\ Len(session.calls) > 1
    /\ session.calls[1].seq > 1
    /\ session.calls[Len(session.calls)].positions[1] = session.calls[1].seq

\* C6 as stated: every call that reaches the decoder supplies a cache exactly
\* when use_cache=true.
C6_CacheIffUseCache ==
    ReachedDecoder => (last.out.decoder.cache <=> last.out.decoder.use_cache)

\* C6: every call that reaches the decoder with use_cache=true supplies a
\* cache (a cache may also be supplied with use_cache=false), and a forward
\* call changes the cache only if it has use_cache=true.
C6_UseCacheNeedsCache ==
    /\ ReachedDecoder /\ last.out.decoder.use_cache => last.out.decoder.cache
    /\ ReachedDecoder => last.out.decoder.use_cache = last.use_cache
    /\ IsForward /\ cache # last.pre => last.use_cache

C6_Witness ==
    /\ ReachedDecoder /\ last.use_cache /\ last.out.decoder.cache
    /\ cache # last.pre

\* C7: a forward call whose token-id tensor is not of rank 2 returns an error
\* before the decoder stack is invoked and leaves the cache as it was.
C7_BadRankRejected ==
    IsForward /\ last.ids /\ last.idsRank # 2
        => /\ Failed({"validation", "shape"})
           /\ ~last.out.decoder.called
           /\ cache = last.pre

C7_Witness ==
    /\ IsForward /\ last.ids /\ ~last.embeds /\ last.idsRank = 1
    /\ last.cacheGiven /\ last.use_cache /\ CacheLen(last.pre) > 0
    /\ Failed({"shape"})
    /\ last.out.stages = <<"embed">>

\* C8: at most one prompt guard is alive over the cache at any time, an
\* attempt to take a second one is refused and leaves the first in place,
\* and a call that changes a guarded cache goes through that one guard.
C8_SingleGuard ==
    /\ Cardinality(guards) <= 1
    /\ last.op = "prompt_guard" /\ last.preGuards # {}
          => ~last.granted /\ guards = last.preGuards
    /\ IsForward /\ last.preGuards # {} /\ cache # last.pre
          => last.preGuards = {last.via}

C8_Witness ==
    /\ last.op = "prompt_guard"
    /\ last.preGuards # {}
    /\ ~last.granted
    /\ CacheLen(cache) > 0

----------------------------------------------------------------------------
(* Properties of the shared accessors *)

\* the thread holds a value it got from get_or_try_init
PastInit(t) ==
    \/ threads[t].pc \in {"lock", "op"}
    \/ threads[t].result = "ok" /\ ~threads[t].locking

Loading(c) == {t \in Threads : threads[t].pc = "loading" /\ threads[t].cell = c}

\* C9: once a load has succeeded the loader never runs again and every call
\* sees that one instance; a failed load leaves the cell empty, and a call
\* that returns the load error is one that ran the loader itself.
C9_MemoizedInit ==
    /\ \A c \in CellIds :
          /\ cells[c].state = "complete"
                => /\ cells[c].okLoads = 1
                   /\ cells[c].value # 0
                   /\ loads[c] = cells[c].loadsAtFill
          /\ cells[c].state # "complete"
                => cells[c].value = 0 /\ cells[c].okLoads = 0
    /\ \A t \in Threads :
          /\ PastInit(t) => /\ cells[threads[t].cell].state = "complete"
                            /\ threads[t].seen = cells[threads[t].cell].value
          /\ threads[t].result = "load_err" => threads[t].ranLoader

C9_Witness ==
    \E c \in CellIds, t \in Threads :
        /\ cells[c].state = "complete"
        /\ loads[c] > 1
        /\ threads[t].cell = c
        /\ threads[t].result = "ok"
        /\ ~threads[t].ranLoader
        /\ threads[t].seen = cells[c].value

\* C10: at most one loader runs at a time for a cell; a caller that waited
\* for a load that succeeded gets that load's value without having run the
\* loader; a cell never has two successful loads.
C10_SingleLoader ==
    /\ \A c \in CellIds :
          /\ Cardinality(Loading(c)) <= 1
          /\ cells[c].state = "running" <=> Loading(c) # {}
          /\ cells[c].okLoads <= 1
    /\ \A t \in Threads :
          /\ threads[t].waitedOn # 0
          /\ cells[threads[t].cell].value = threads[t].waitedOn
          /\ threads[t].pc # "waiting"
          => /\ ~threads[t].ranLoader
             /\ threads[t].seen = threads[t].waitedOn

C10_Witness ==
    \E t \in Threads, u \in Threads :
        /\ t # u
        /\ threads[t].cell = threads[u].cell
        /\ threads[t].waitedOn # 0
        /\ threads[t].seen = threads[t].waitedOn
        /\ ~threads[t].ranLoader
        /\ PastInit(t)
        /\ threads[u].ranLoader
        /\ threads[u].seen = threads[t].seen

InOp(c) == {t \in Threads : threads[t].pc = "op" /\ threads[t].cell = c}

\* C12: a call to with_shared_ocr_model or with_shared_language_model whose
\* own operation does not panic returns a result or an error value; it never
\* panics, also not after an earlier operation aborted holding the lock.
C12_NeverPanics ==
    \A t \in Threads : threads[t].result # "lock_panic"

\* C13: operations on one shared model never overlap; the lock is held
\* exactly by the thread whose operation is running and is free again once
\* the operation has returned; an operation that returned Ok or Err leaves the
\* lock usable for the next caller.
C13_Serialized ==
    \A c \in CellIds :
        /\ Cardinality(InOp(c)) <= 1
        /\ \A t \in InOp(c) : locks[c].holder = t
        /\ locks[c].holder # 0 => locks[c].holder \in InOp(c)
        /\ locks[c].poisoned
              => \E t \in Threads : /\ threads[t].cell = c
                                    /\ threads[t].pc = "panicked"
                                    /\ threads[t].result = "panic"

C13_Witness ==
    \E c \in CellIds :
        /\ locks[c].holder # 0
        /\ locks[c].holder \in InOp(c)
        /\ \E t \in Threads : /\ threads[t].cell = c
                              /\ threads[t].pc = "idle"
                              /\ threads[t].result = "err"

----------------------------------------------------------------------------
(* Properties of construction *)

\* pairs (upper-case letter, lower-case letter)
CasePairs == {<<u, UpperToLower[u]>> : u \in DOMAIN UpperToLower}

SameIgnoringCase(a, b) ==
    /\ Len(a) = Len(b)
    /\ \A i \in 1..Len(a) :
          \/ a[i] = b[i]
          \/ <<a[i], b[i]>> \in CasePairs
          \/ <<b[i], a[i]>> \in CasePairs

SaysTrue(value) ==
    IsSome(value) /\ \E w \in {Str1, StrTrue, StrYes} : SameIgnoringCase(Unwrap(value), w)

SaysFalse(value) ==
    IsSome(value) /\ \E w \in {Str0, StrFalse, StrNo} : SameIgnoringCase(Unwrap(value), w)

----------------------------------------------------------------------------
(* Properties of the configuration *)

Registry == Unwrap(cfg).models
PreRegistry == Unwrap(cfgLast.pre).models

\* C14: once normalise has succeeded on a configuration, apply_overrides and
\* normalise keep its registry non-empty and holding an entry for the active
\* id, so active_model_resources does not fail with "model not found", and
\* load_with_overrides never ends with that failure.
C14_ActiveEntryKept ==
    /\ normalised
          => /\ IsSome(cfg)
             /\ DOMAIN Registry.entries # {}
             /\ Registry.active \in DOMAIN Registry.entries
    /\ cfgLast.op = "active_model_resources" /\ cfgLast.preNormalised
          => cfgLast.result = "ok"
    /\ cfgLast.op = "load_with_overrides"
          => cfgLast.result # "not_found"

C14_Witness ==
    /\ normalised /\ IsSome(cfg)
    /\ cfgLast.op = "apply_overrides" /\ cfgLast.preNormalised
    /\ IsSome(cfgLast.ov.model_id)
    /\ Unwrap(cfgLast.ov.model_id) \notin DOMAIN PreRegistry.entries
    /\ Registry.active = Unwrap(cfgLast.ov.model_id)
    /\ Registry.active \in DOMAIN Registry.entries

\* C15: apply_overrides leaves alone what the overrides do not name: an
\* inference or server field whose override is None keeps its value, the
\* active id changes only when model_id is given, paths are written only on
\* the active model's entry and only where given, and every other entry is
\* as before.
C15_OverridesFrame ==
    cfgLast.op = "apply_overrides"
        => LET pre == Unwrap(cfgLast.pre)
               post == Unwrap(cfg)
               ov == cfgLast.ov
               active == post.models.active
               before == IF active \in DOMAIN pre.models.entries
                         THEN pre.models.entries[active]
                         ELSE DefaultEntry
           IN /\ \A f \in DOMAIN ov.inference :
                    ov.inference[f] = None => post.inference[f] = pre.inference[f]
              /\ \A f \in DOMAIN ov.server :
                    ov.server[f] = None => post.server[f] = pre.server[f]
              /\ ov.model_id = None => active = pre.models.active
              /\ DOMAIN pre.models.entries \subseteq DOMAIN post.models.entries
              /\ DOMAIN post.models.entries
                    \subseteq DOMAIN pre.models.entries \cup {active}
              /\ \A id \in DOMAIN pre.models.entries :
                    id # active => post.models.entries[id] = pre.models.entries[id]
              /\ active \in DOMAIN post.models.entries
                    => /\ ov.model_config = None
                          => post.models.entries[active].config = before.config
                       /\ ov.tokenizer = None
                          => post.models.entries[active].tokenizer = before.tokenizer
                       /\ ov.weights = None
                          => post.models.entries[active].weights = before.weights

C15_Witness ==
    /\ cfgLast.op = "apply_overrides"
    /\ IsSome(cfgLast.ov.model_id)
    /\ Unwrap(cfgLast.ov.model_id) # PreRegistry.active
    /\ PreRegistry.active \in DOMAIN PreRegistry.entries
    /\ PreRegistry.entries[PreRegistry.active] = FileEntry
    /\ Registry.entries[PreRegistry.active] = FileEntry
    /\ IsSome(cfgLast.ov.model_config) /\ cfgLast.ov.tokenizer = None
    /\ Registry.entries[Registry.active].tokenizer = None
    /\ cfgLast.ov.inference.precision = None
    /\ IsSome(cfgLast.ov.inference.device)
    /\ Unwrap(cfgLast.pre).inference.precision = Some("F16")
    /\ Unwrap(cfg).inference.precision = Some("F16")
    /\ cfgLast.ov.server.port = None
    /\ Unwrap(cfg).server.port = 9000

====
